---- MODULE Spec2Model ----
(***************************************************************************)
(* Model of src/server.js: the per-resource fetch / cache / demo-fallback  *)
(* / backoff state machine behind GET /api/locations and GET /api/states.  *)
(*                                                                         *)
(* Node runs the handlers cooperatively: a handler runs without            *)
(* interruption from one `await` to the next.  Every action below is one   *)
(* such uninterrupted stretch of a handler.  Time (Date.now()) is the      *)
(* variable clock, counted in abstract ticks.                              *)
(***************************************************************************)
EXTENDS Integers, Naturals, Sequences, FiniteSets, Bags, TLC

(* ------------------------------ bounds --------------------------------- *)
\* Date.now() runs over 0..MaxTime (to MaxTime + UPSTREAM_TIMEOUT_MS where one
\* call is followed step by step, see Elapse).
MaxTime == 1
\* At most this many requests arrive in one run (one more when only one
\* resource has an upstream, see InitOne).
MaxRequests == 3
\* Where requests arrive without end (SpecRecover): at most this many are
\* suspended at once.
MaxPending == 2

(* ------------------------- program constants --------------------------- *)
\* server.js:24, Number(process.env.BACKOFF_AFTER_FAILS || 3); the model runs
\* the deployment BACKOFF_AFTER_FAILS=2.
BACKOFF_AFTER_FAILS == 2
\* server.js:25, Number(process.env.BACKOFF_WINDOW_MS || 30000); here in ticks
\* of the model's clock.
BACKOFF_WINDOW_MS == 1
\* server.js:23, Number(process.env.UPSTREAM_TIMEOUT_MS || 3000); in ticks.
UPSTREAM_TIMEOUT_MS == 1

Kinds == {"locations", "states"}

(* ------------------------- JavaScript values --------------------------- *)
\* A JS value: type tag, number (or 0/1 for a boolean, or an object's
\* identity), string, and the items of an array.
JsNull == [type |-> "null", n |-> 0, s |-> "", items |-> <<>>]
JsBool(b) == [type |-> "boolean", n |-> IF b THEN 1 ELSE 0, s |-> "", items |-> <<>>]
JsNum(x) == [type |-> "number", n |-> x, s |-> "", items |-> <<>>]
JsStr(x) == [type |-> "string", n |-> 0, s |-> x, items |-> <<>>]
JsObj(id) == [type |-> "object", n |-> id, s |-> "", items |-> <<>>]
JsArr(xs) == [type |-> "array", n |-> 0, s |-> "", items |-> xs]
JsUndefined == [type |-> "undefined", n |-> 0, s |-> "", items |-> <<>>]

\* JS truthiness, as tested by `if (cacheLocations.data)`.
Truthy(v) ==
  CASE v.type = "null" -> FALSE
    [] v.type = "undefined" -> FALSE
    [] v.type = "boolean" -> v.n = 1
    [] v.type = "number" -> v.n # 0
    [] v.type = "string" -> v.s # ""
    [] OTHER -> TRUE

(* ------------------------------ upstream ------------------------------- *)
\* What one fetch() of an upstream can come to: the transport outcome, the
\* HTTP status, the declared content-type header and the body text.
UpFail(net, status) == [net |-> net, status |-> status, ct |-> "", body |-> ""]
UpOk(ct, body) == [net |-> "ok", status |-> 200, ct |-> ct, body |-> body]
UpstreamResponses ==
  { UpFail("timeout", 0), UpFail("refused", 0), UpFail("ok", 503),
    UpOk("application/json", "null"), UpOk("application/json", "0"),
    UpOk("application/geo+json", "{\"id\":1}"),
    UpOk("application/json", "<html>"),
    UpOk("Text/CSV", ""), UpOk("", "a,b") }

\* One response of each kind: a timeout, a 503, a JSON body and a text body.
CoreResponses ==
  {UpFail("timeout", 0), UpFail("ok", 503),
   UpOk("application/geo+json", "{\"id\":1}"), UpOk("", "a,b")}

\* String.prototype.toLowerCase on the content types above.
ToLowerCase(s) == IF s = "Text/CSV" THEN "text/csv" ELSE s
\* ct.includes("application/json") || ct.includes("+json")
IsJsonType(ct) == ct \in {"application/json", "application/geo+json"}
\* Response.json(): JSON.parse of the body text; Undefined stands for the
\* SyntaxError it throws.
JsonParse(text) ==
  CASE text = "null" -> JsNull
    [] text = "0" -> JsNum(0)
    [] text = "false" -> JsBool(FALSE)
    [] text = "\"\"" -> JsStr("")
    [] text = "{\"id\":1}" -> JsObj(1)
    [] OTHER -> JsUndefined

\* tryRemote(url, kind): the normalised outcome of one upstream call.
tryRemote(u) ==
  IF u.net # "ok"
  THEN [ok |-> FALSE, status |-> 502, data |-> JsUndefined, contentType |-> ""]
  ELSE IF u.status # 200
  THEN [ok |-> FALSE, status |-> u.status, data |-> JsUndefined, contentType |-> ""]
  ELSE LET ct == ToLowerCase(u.ct) IN
    IF IsJsonType(ct)
    THEN IF JsonParse(u.body) = JsUndefined
         THEN [ok |-> FALSE, status |-> 502, data |-> JsUndefined, contentType |-> ""]
         ELSE [ok |-> TRUE, status |-> 200, data |-> JsonParse(u.body),
               contentType |-> "application/json"]
    ELSE [ok |-> TRUE, status |-> 200, data |-> JsStr(u.body),
          contentType |-> IF ct = "" THEN "text/plain; charset=utf-8" ELSE ct]

(* ------------------------------- state --------------------------------- *)
VARIABLES
  env,                \* process.env: TRAFFIC_API_BASE, LOCATIONS_URL, STATES_URL
  remoteUrl,          \* per kind: toAbs(LOCATIONS_URL), toAbs(STATES_URL)
  DEMO_CONFIGURED,    \* ENABLE_DEMO_MODE
  baseline,           \* the entries of sample-data/states.json
  lastFallback,       \* lastLocationsFallback, lastStatesFallback
  cache,              \* cacheLocations, cacheStates
  failCount,          \* locFailCount, statesFailCount
  nextTryAt,          \* locNextTryAt, statesNextTryAt
  clock,              \* Date.now()
  inflight,           \* bag of the requests suspended at an await
  res,                \* the response sent by the latest step (NoRes if none)
  fetchStarted,       \* the kind whose upstream the latest step called ("" if none)
  alive,              \* the process is up
  arrived,            \* number of requests received so far
  budget,             \* number of requests that arrive in this run
  tripUntil,          \* history: the deadline set by the latest trip, per kind
  failedSince,        \* history: failed attempts started at or after tripUntil,
                      \* counted up to BACKOFF_AFTER_FAILS, since the latest trip
  call,               \* the upstream call followed in detail (NoCall if none)
  probe,              \* the upstream call /health or /api/proxy made in the
                      \* latest step (NoProbe if none)
  healthy             \* the upstream answers every call successfully from now on

vars == <<env, remoteUrl, DEMO_CONFIGURED, baseline, budget, lastFallback, cache, failCount,
          nextTryAt, clock, inflight, res, fetchStarted, alive, arrived, tripUntil,
          failedSince, call, probe, healthy>>
history == <<tripUntil, failedSince>>
config == <<env, remoteUrl, DEMO_CONFIGURED, baseline, budget>>
\* What the resolvers of /api/locations and /api/states never touch.
detail == <<call, healthy>>

BaseSamples == {"", "https://up"}
UrlSamples == {"", "/v1/feed", "https://up/v1/feed"}

\* /^https?:\/\//i.test(urlOrPath) on the samples.
IsHttpUrl(u) == u \in {"https://up/v1/feed", "https://up"}
\* urlOrPath.replace(/^\/+/, "") on the samples.
StripLeadingSlashes(p) == IF p = "/v1/feed" THEN "v1/feed" ELSE p

toAbs_noBaseCheck(BASE, urlOrPath) ==
  IF urlOrPath = "" THEN ""
  ELSE IF IsHttpUrl(urlOrPath) THEN urlOrPath
  ELSE BASE \o "/" \o StripLeadingSlashes(urlOrPath)

\* toAbs(urlOrPath) under TRAFFIC_API_BASE = BASE; "" stands for null.
toAbs(BASE, urlOrPath) ==
  IF urlOrPath = "" THEN ""
  ELSE IF IsHttpUrl(urlOrPath) THEN urlOrPath
  ELSE IF BASE = "" THEN ""
  ELSE BASE \o "/" \o StripLeadingSlashes(urlOrPath)

EmptyCache == [data |-> JsNull, contentType |-> "application/json", at |-> 0]

NoRes == [kind |-> "", path |-> "none", status |-> 0, xCache |-> "", xDemo |-> "",
          contentType |-> "", body |-> JsUndefined, fetches |-> 0]

\* No upstream call is followed in detail.
NoCall == [phase |-> "idle", kind |-> "", deadline |-> 0, up |-> UpFail("none", 0)]
\* `probe` when the latest step is not a step of /health or /api/proxy.
NoProbe == [by |-> "", kind |-> "", path |-> "", url |-> ""]

ResourceUrl(e, kind) == IF kind = "locations" THEN e.LOCATIONS_URL ELSE e.STATES_URL
\* Lines 153 and 194: const remoteUrl = toAbs(LOCATIONS_URL) / toAbs(STATES_URL).
RemoteUrls(e) == [kind \in Kinds |-> toAbs(e.BASE, ResourceUrl(e, kind))]
Environments == [BASE : BaseSamples, LOCATIONS_URL : UrlSamples, STATES_URL : UrlSamples]

(* ------------------------------ demo data ------------------------------ *)
\* sample-data/locations.geojson, sent as read.
DemoLocations == JsStr("sample-data/locations.geojson")
\* sample-data/states.json, parsed: an array of entries.  The one-entry baseline
\* is the one the deployments below are started with.
DemoStatesBase == << [id |-> "TRE101", state |-> "3"] >>
\* A baseline of two entries: state "4" is a value of the pool of line 224 and
\* "3" is outside it.
DemoStatesPair == << [id |-> "TRE101", state |-> "4"], [id |-> "TRE102", state |-> "3"] >>
\* The baseline files: an empty array, one entry, two entries.
Baselines == {SubSeq(DemoStatesPair, 1, n) : n \in 0..Len(DemoStatesPair)}
candidates == << "1", "4", "5", "9", "12", "14", "16", "17", "18", "19", "22", "23" >>
\* base.map(...): roll[i] = 0 keeps entry i (Math.random() >= 0.25), roll[i] = j
\* takes candidates[j - 1].
Randomized(base, roll) ==
  [i \in 1..Len(base) |->
     [base[i] EXCEPT !.state = IF roll[i] = 0 THEN @ ELSE candidates[roll[i]]]]
DemoBodies(kind) ==
  IF kind = "locations" THEN {DemoLocations}
  ELSE {JsArr(Randomized(baseline, roll)) :
          roll \in [1..Len(baseline) -> 0..Len(candidates)]}

\* The module state of server.js at start.
Boot ==
  /\ lastFallback = [k \in Kinds |-> FALSE]
  /\ cache = [k \in Kinds |-> EmptyCache]
  /\ failCount = [k \in Kinds |-> 0]
  /\ nextTryAt = [k \in Kinds |-> 0]
  /\ clock = 0
  /\ inflight = EmptyBag
  /\ res = NoRes
  /\ fetchStarted = ""
  /\ alive = TRUE
  /\ arrived = 0
  /\ tripUntil = [k \in Kinds |-> 0]
  /\ failedSince = [k \in Kinds |-> 0]
  /\ call = NoCall
  /\ probe = NoProbe
  /\ healthy = FALSE

Start ==
  /\ baseline = DemoStatesBase
  /\ Boot

\* The deployments under a base: each URL unset or relative to the base (one
\* deployment for each way the two URLs can resolve).
Init ==
  /\ env \in {e \in Environments :
                /\ e.BASE = "https://up"
                /\ \A kind \in Kinds : ResourceUrl(e, kind) \in {"", "/v1/feed"}}
  /\ remoteUrl = RemoteUrls(env)
  /\ DEMO_CONFIGURED \in BOOLEAN
  /\ budget = MaxRequests
  /\ Start

\* The deployments in which only the locations upstream is configured.
InitOne ==
  /\ env = [BASE |-> "https://up", LOCATIONS_URL |-> "/v1/feed", STATES_URL |-> ""]
  /\ remoteUrl = RemoteUrls(env)
  /\ DEMO_CONFIGURED \in BOOLEAN
  /\ budget = MaxRequests + 1
  /\ Start

(* --------------------------- backoff policy ---------------------------- *)
\* Mutant: the comparison turned around.
shouldBackoff_reversed(nextTry) == clock > nextTry

\* Mutant: the deadline itself still counts as inside the window.
shouldBackoff_inclusive(nextTry) == clock <= nextTry

\* shouldBackoff(nextTryAt): Date.now() < nextTryAt.
shouldBackoff(nextTry) == clock < nextTry

\* Mutant: the window opens only when the count exceeds the threshold.
onFail_offByOne(kind) ==
  LET n == failCount[kind] + 1 IN
  IF n > BACKOFF_AFTER_FAILS
  THEN [failCount |-> [failCount EXCEPT ![kind] = 0],
        nextTryAt |-> [nextTryAt EXCEPT ![kind] = clock + BACKOFF_WINDOW_MS],
        tripped |-> TRUE]
  ELSE [failCount |-> [failCount EXCEPT ![kind] = n],
        nextTryAt |-> nextTryAt,
        tripped |-> FALSE]

\* Mutant: the count is kept when the window opens.
onFail_noReset(kind) ==
  LET n == failCount[kind] + 1 IN
  IF n >= BACKOFF_AFTER_FAILS
  THEN [failCount |-> [failCount EXCEPT ![kind] = n],
        nextTryAt |-> [nextTryAt EXCEPT ![kind] = clock + BACKOFF_WINDOW_MS],
        tripped |-> TRUE]
  ELSE [failCount |-> [failCount EXCEPT ![kind] = n],
        nextTryAt |-> nextTryAt,
        tripped |-> FALSE]

\* Mutant: the states branch sets the deadline of locations.
onFail_copyPaste(kind) ==
  LET n == failCount[kind] + 1 IN
  IF n >= BACKOFF_AFTER_FAILS
  THEN [failCount |-> [failCount EXCEPT ![kind] = 0],
        nextTryAt |-> [nextTryAt EXCEPT !["locations"] = clock + BACKOFF_WINDOW_MS],
        tripped |-> TRUE]
  ELSE [failCount |-> [failCount EXCEPT ![kind] = n],
        nextTryAt |-> nextTryAt,
        tripped |-> FALSE]

\* onFail(kind): the counters after one more failure of `kind`.
onFail(kind) ==
  LET n == failCount[kind] + 1 IN
  IF n >= BACKOFF_AFTER_FAILS
  THEN [failCount |-> [failCount EXCEPT ![kind] = 0],
        nextTryAt |-> [nextTryAt EXCEPT ![kind] = clock + BACKOFF_WINDOW_MS],
        tripped |-> TRUE]
  ELSE [failCount |-> [failCount EXCEPT ![kind] = n],
        nextTryAt |-> nextTryAt,
        tripped |-> FALSE]

\* Mutant: the deadline is not cleared.
onSuccess_keepsDeadline(kind) ==
  [failCount |-> [failCount EXCEPT ![kind] = 0],
   nextTryAt |-> nextTryAt]

\* onSuccess(kind): the counters after a success of `kind`.
onSuccess(kind) ==
  [failCount |-> [failCount EXCEPT ![kind] = 0],
   nextTryAt |-> [nextTryAt EXCEPT ![kind] = 0]]

(* ------------------------------ responses ------------------------------ *)
\* `path` names the branch of the handler that sent the response; `fetches`
\* is the number of upstream calls the request made.
LiveResponse(kind, out, fetches) ==
  [kind |-> kind, path |-> "live", status |-> 200, xCache |-> "", xDemo |-> "",
   contentType |-> out.contentType, body |-> out.data, fetches |-> fetches]

\* Mutant: the demo header is set on a cache hit as well.
CachedResponse_demoHeader(kind, fetches) ==
  [kind |-> kind, path |-> "cached", status |-> 200, xCache |-> "hit-" \o kind,
   xDemo |-> kind, contentType |-> cache[kind].contentType, body |-> cache[kind].data,
   fetches |-> fetches]

CachedResponse(kind, fetches) ==
  [kind |-> kind, path |-> "cached", status |-> 200, xCache |-> "hit-" \o kind,
   xDemo |-> "", contentType |-> cache[kind].contentType, body |-> cache[kind].data,
   fetches |-> fetches]

SyntheticResponse(kind, body, fetches) ==
  [kind |-> kind, path |-> "synthetic", status |-> 200, xCache |-> "", xDemo |-> kind,
   contentType |-> "application/json", body |-> body, fetches |-> fetches]

\* res.status(500).json({ error: "<KIND>_URL failed, and demo mode disabled" })
UnavailableResponse(kind, fetches) ==
  [kind |-> kind, path |-> "unavailable", status |-> 500, xCache |-> "", xDemo |-> "",
   contentType |-> "application/json",
   body |-> JsStr(IF kind = "locations"
                  THEN "LOCATIONS_URL failed, and demo mode disabled"
                  ELSE "STATES_URL failed, and demo mode disabled"),
   fetches |-> fetches]

\* The handler's promise rejected (readFile / JSON.parse threw): the handler
\* itself sends nothing.
FaultOutcome(kind, fetches) ==
  [kind |-> kind, path |-> "fault", status |-> 0, xCache |-> "", xDemo |-> kind,
   contentType |-> "", body |-> JsUndefined, fetches |-> fetches]

(* ------------------------------ handlers ------------------------------- *)
Suspended(kind, pc, t, fetches) ==
  SetToBag({[kind |-> kind, pc |-> pc, now |-> t, fetches |-> fetches, acc |-> <<>>]})

\* Mutant: the demo branch is taken without testing DEMO_CONFIGURED.
Fallthrough_demoAlways(kind, rest, lf, t, fetches) ==
  IF Truthy(cache[kind].data)
  THEN /\ res' = CachedResponse(kind, fetches)
       /\ inflight' = rest
       /\ lastFallback' = lf
  ELSE /\ lastFallback' = [lf EXCEPT ![kind] = TRUE]
       /\ inflight' = rest (+) Suspended(kind, "readDemo", 0, fetches)
       /\ res' = NoRes

\* Mutant: demo data only for a request that made no upstream call.
Fallthrough_noDemoAfterFail(kind, rest, lf, t, fetches) ==
  IF Truthy(cache[kind].data)
  THEN /\ res' = CachedResponse(kind, fetches)
       /\ inflight' = rest
       /\ lastFallback' = lf
  ELSE IF DEMO_CONFIGURED /\ fetches = 0
  THEN /\ lastFallback' = [lf EXCEPT ![kind] = TRUE]
       /\ inflight' = rest (+) Suspended(kind, "readDemo", 0, fetches)
       /\ res' = NoRes
  ELSE /\ res' = UnavailableResponse(kind, fetches)
       /\ inflight' = rest
       /\ lastFallback' = lf

\* Lines 171-187 / 212-233 up to the next await: serve the cache, else start
\* the demo read, else answer 500.  `rest` is the bag of the other suspended
\* requests, `lf` the fallback flags so far, `t` the request's `now`.
Fallthrough(kind, rest, lf, t, fetches) ==
  IF Truthy(cache[kind].data)
  THEN /\ res' = CachedResponse(kind, fetches)
       /\ inflight' = rest
       /\ lastFallback' = lf
  ELSE IF DEMO_CONFIGURED
  THEN /\ lastFallback' = [lf EXCEPT ![kind] = TRUE]
       /\ inflight' = rest (+) Suspended(kind, "readDemo", 0, fetches)
       /\ res' = NoRes
  ELSE /\ res' = UnavailableResponse(kind, fetches)
       /\ inflight' = rest
       /\ lastFallback' = lf

\* Mutant: a failed call is tried once more.
AfterFail_retry(r, rest) ==
  /\ inflight' = rest (+) Suspended(r.kind, "tryRemote", r.now, r.fetches + 1)
  /\ res' = NoRes
  /\ UNCHANGED lastFallback

\* What a request does after its upstream call failed (after onFail).
AfterFail(r, rest) == Fallthrough(r.kind, rest, lastFallback, r.now, r.fetches)

\* Mutant: a request that is not allowed to call upstream counts as a failure.
Handle_countsSkipped(kind) ==
  /\ alive
  /\ LET lf == [lastFallback EXCEPT ![kind] = FALSE]
     IN IF remoteUrl[kind] # "" /\ ~shouldBackoff(nextTryAt[kind])
        THEN /\ inflight' = inflight (+) Suspended(kind, "tryRemote", clock, 1)
             /\ fetchStarted' = kind
             /\ lastFallback' = lf
             /\ res' = NoRes
             /\ UNCHANGED <<failCount, nextTryAt>>
        ELSE /\ Fallthrough(kind, inflight, lf, clock, 0)
             /\ fetchStarted' = ""
             /\ failCount' = onFail(kind).failCount
             /\ nextTryAt' = onFail(kind).nextTryAt
  /\ UNCHANGED <<config, cache, clock, alive, history>>

\* GET /api/<kind>, from the start of the handler to its first await (or to
\* its response when it does not suspend).
Handle(kind) ==
  /\ alive
  /\ LET lf == [lastFallback EXCEPT ![kind] = FALSE]
     IN IF remoteUrl[kind] # "" /\ ~shouldBackoff(nextTryAt[kind])
        THEN /\ inflight' = inflight (+) Suspended(kind, "tryRemote", clock, 1)
             /\ fetchStarted' = kind
             /\ lastFallback' = lf
             /\ res' = NoRes
        ELSE /\ Fallthrough(kind, inflight, lf, clock, 0)
             /\ fetchStarted' = ""
  /\ UNCHANGED <<config, cache, failCount, nextTryAt, clock, alive, history>>

\* A request for /api/<kind> arrives (one of the `budget` requests of the run).
ApiStart(kind) ==
  /\ arrived < budget
  /\ arrived' = arrived + 1
  /\ Handle(kind)
  /\ probe' = NoProbe
  /\ UNCHANGED detail

\* Mutant: a success stores the payload under the content type already cached.
Resume_keepsContentType(r, u) ==
  /\ alive
  /\ r.pc = "tryRemote"
  /\ LET out == tryRemote(u)
         rest == inflight (-) SetToBag({r})
     IN IF out.ok
        THEN /\ failCount' = onSuccess(r.kind).failCount
             /\ nextTryAt' = onSuccess(r.kind).nextTryAt
             /\ cache' = [cache EXCEPT ![r.kind] =
                            [data |-> out.data, contentType |-> @.contentType,
                             at |-> r.now]]
             /\ res' = LiveResponse(r.kind, out, r.fetches)
             /\ inflight' = rest
             /\ UNCHANGED <<lastFallback, history>>
        ELSE /\ failCount' = onFail(r.kind).failCount
             /\ nextTryAt' = onFail(r.kind).nextTryAt
             /\ tripUntil' = IF onFail(r.kind).tripped
                             THEN [tripUntil EXCEPT ![r.kind] = clock + BACKOFF_WINDOW_MS]
                             ELSE tripUntil
             /\ failedSince' =
                  [failedSince EXCEPT ![r.kind] =
                     IF onFail(r.kind).tripped THEN 0
                     ELSE IF r.now >= tripUntil[r.kind] /\ @ < BACKOFF_AFTER_FAILS
                     THEN @ + 1 ELSE @]
             /\ AfterFail(r, rest)
             /\ UNCHANGED cache
  /\ fetchStarted' = ""
  /\ UNCHANGED <<config, clock, alive, arrived>>

\* The upstream call of suspended request r comes to u: the handler resumes
\* after `await tryRemote(...)`.
Resume(r, u) ==
  /\ alive
  /\ r.pc = "tryRemote"
  /\ LET out == tryRemote(u)
         rest == inflight (-) SetToBag({r})
     IN IF out.ok
        THEN /\ failCount' = onSuccess(r.kind).failCount
             /\ nextTryAt' = onSuccess(r.kind).nextTryAt
             /\ cache' = [cache EXCEPT ![r.kind] =
                            [data |-> out.data, contentType |-> out.contentType,
                             at |-> r.now]]
             /\ res' = LiveResponse(r.kind, out, r.fetches)
             /\ inflight' = rest
             /\ UNCHANGED <<lastFallback, history>>
        ELSE /\ failCount' = onFail(r.kind).failCount
             /\ nextTryAt' = onFail(r.kind).nextTryAt
             /\ tripUntil' = IF onFail(r.kind).tripped
                             THEN [tripUntil EXCEPT ![r.kind] = clock + BACKOFF_WINDOW_MS]
                             ELSE tripUntil
             /\ failedSince' =
                  [failedSince EXCEPT ![r.kind] =
                     IF onFail(r.kind).tripped THEN 0
                     ELSE IF r.now >= tripUntil[r.kind] /\ @ < BACKOFF_AFTER_FAILS
                     THEN @ + 1 ELSE @]
             /\ AfterFail(r, rest)
             /\ UNCHANGED cache
  /\ fetchStarted' = ""
  /\ UNCHANGED <<config, clock, alive, arrived>>

ApiFetchDone(r, u) ==
  /\ Resume(r, u)
  /\ probe' = NoProbe
  /\ UNCHANGED detail

\* Mutant: the synthetic body is stored in the cache.
ApiDemoDone_caching(r) ==
  /\ alive
  /\ r.pc = "readDemo"
  /\ inflight' = inflight (-) SetToBag({r})
  /\ fetchStarted' = ""
  /\ probe' = NoProbe
  /\ \E body \in DemoBodies(r.kind) :
       /\ res' = SyntheticResponse(r.kind, body, r.fetches)
       /\ cache' = [cache EXCEPT ![r.kind] =
                      [data |-> body, contentType |-> "application/json", at |-> r.now]]
  /\ UNCHANGED <<config, lastFallback, failCount, nextTryAt, clock, alive, arrived,
                 history, detail>>

\* Mutant: the re-rolled entries replace the baseline the next answer starts from.
ApiDemoDone_accumulating(r) ==
  /\ alive
  /\ r.pc = "readDemo"
  /\ inflight' = inflight (-) SetToBag({r})
  /\ fetchStarted' = ""
  /\ probe' = NoProbe
  /\ \E body \in DemoBodies(r.kind) :
       /\ res' = SyntheticResponse(r.kind, body, r.fetches)
       /\ baseline' = IF r.kind = "states" THEN body.items ELSE baseline
  /\ UNCHANGED <<env, remoteUrl, DEMO_CONFIGURED, budget, lastFallback, cache, failCount,
                 nextTryAt, clock, alive, arrived, history, detail>>

\* The demo read of suspended request r completes: the handler resumes after
\* `await readFile(...)` / `await readDemoJSON(...)`.
ApiDemoDone(r) ==
  /\ alive
  /\ r.pc = "readDemo"
  /\ inflight' = inflight (-) SetToBag({r})
  /\ fetchStarted' = ""
  /\ probe' = NoProbe
  /\ \/ /\ \E body \in DemoBodies(r.kind) :
               res' = SyntheticResponse(r.kind, body, r.fetches)
          /\ alive' = alive
     \/ /\ res' = FaultOutcome(r.kind, r.fetches)
          /\ alive' \in BOOLEAN
  /\ UNCHANGED <<config, lastFallback, cache, failCount, nextTryAt, clock, arrived,
                 history, detail>>

\* Date.now() advances.
Tick ==
  /\ alive
  /\ clock < MaxTime
  /\ clock' = clock + 1
  /\ res' = NoRes
  /\ fetchStarted' = ""
  /\ probe' = NoProbe
  /\ UNCHANGED <<config, lastFallback, cache, failCount, nextTryAt, inflight,
                 alive, arrived, history, detail>>

Next ==
  \/ \E kind \in Kinds : ApiStart(kind)
  \/ \E r \in BagToSet(inflight) : \E u \in UpstreamResponses : ApiFetchDone(r, u)
  \/ \E r \in BagToSet(inflight) : ApiDemoDone(r)
  \/ Tick

(* ------------------------ /health and /api/proxy ----------------------- *)
ProbeSuspended(pc, fetches, acc) ==
  SetToBag({[kind |-> "", pc |-> pc, now |-> 0, fetches |-> fetches, acc |-> acc]})

ProbeResponse(path, status, contentType, body, fetches) ==
  [kind |-> "", path |-> path, status |-> status, xCache |-> "", xDemo |-> "",
   contentType |-> contentType, body |-> body, fetches |-> fetches]

\* /health from `if (STATES_URL)` on: call tryRemote(toAbs(STATES_URL)) and
\* suspend, or note 400 and answer.  `acc` holds out.locations.
HealthStates(rest, fetches, acc) ==
  IF env.STATES_URL # ""
  THEN /\ inflight' = rest (+) ProbeSuspended("health.states", fetches + 1, acc)
       /\ probe' = [by |-> "health", kind |-> "states", path |-> env.STATES_URL,
                    url |-> toAbs(env.BASE, env.STATES_URL)]
       /\ res' = NoRes
  ELSE /\ inflight' = rest
       /\ probe' = [NoProbe EXCEPT !.by = "health"]
       /\ res' = ProbeResponse("health", 200, "application/json",
                               JsArr(Append(acc, [ok |-> FALSE, status |-> 400])), fetches)

\* GET /health up to its first await (or to its response).
HealthStart ==
  /\ alive
  /\ arrived < budget
  /\ arrived' = arrived + 1
  /\ IF env.LOCATIONS_URL # ""
     THEN /\ inflight' = inflight (+) ProbeSuspended("health.locations", 1, <<>>)
          /\ probe' = [by |-> "health", kind |-> "locations", path |-> env.LOCATIONS_URL,
                       url |-> toAbs(env.BASE, env.LOCATIONS_URL)]
          /\ res' = NoRes
     ELSE HealthStates(inflight, 0, << [ok |-> FALSE, status |-> 400] >>)
  /\ fetchStarted' = ""
  /\ UNCHANGED <<config, lastFallback, cache, failCount, nextTryAt, clock, alive,
                 history, detail>>

\* What `{ ok: r.ok, status: r.status || 200 }` is for a call of url that the
\* upstream answers with u; fetch(null) rejects without calling.
ProbeResult(url, u) ==
  IF url = "" THEN [ok |-> FALSE, status |-> 502]
  ELSE [ok |-> tryRemote(u).ok, status |-> tryRemote(u).status]

\* Mutant: a failed probe is counted as a failure of the resource.
HealthDone_counting(r, u) ==
  /\ alive
  /\ r.pc \in {"health.locations", "health.states"}
  /\ fetchStarted' = ""
  /\ LET rest == inflight (-) SetToBag({r})
         kind == IF r.pc = "health.locations" THEN "locations" ELSE "states"
         result == ProbeResult(remoteUrl[kind], u)
     IN /\ IF r.pc = "health.locations"
           THEN HealthStates(rest, r.fetches, Append(r.acc, result))
           ELSE /\ inflight' = rest
                /\ probe' = [NoProbe EXCEPT !.by = "health"]
                /\ res' = ProbeResponse("health", 200, "application/json",
                                        JsArr(Append(r.acc, result)), r.fetches)
        /\ failCount' = IF result.ok THEN failCount ELSE onFail(kind).failCount
        /\ nextTryAt' = IF result.ok THEN nextTryAt ELSE onFail(kind).nextTryAt
  /\ UNCHANGED <<config, lastFallback, cache, clock, alive, arrived,
                 history, detail>>

\* /health resumes after `await tryRemote(...)` of request r, the upstream
\* having answered u.
HealthDone(r, u) ==
  /\ alive
  /\ r.pc \in {"health.locations", "health.states"}
  /\ fetchStarted' = ""
  /\ LET rest == inflight (-) SetToBag({r})
         kind == IF r.pc = "health.locations" THEN "locations" ELSE "states"
         result == ProbeResult(remoteUrl[kind], u)
     IN IF r.pc = "health.locations"
        THEN HealthStates(rest, r.fetches, Append(r.acc, result))
        ELSE /\ inflight' = rest
             /\ probe' = [NoProbe EXCEPT !.by = "health"]
             /\ res' = ProbeResponse("health", 200, "application/json",
                                     JsArr(Append(r.acc, result)), r.fetches)
  /\ UNCHANGED <<config, lastFallback, cache, failCount, nextTryAt, clock, alive, arrived,
                 history, detail>>

\* GET /api/proxy?path=p up to its await (or to its 400).
ProxyStart(p) ==
  /\ alive
  /\ arrived < budget
  /\ arrived' = arrived + 1
  /\ probe' = [by |-> "proxy", kind |-> "", path |-> p, url |-> toAbs(env.BASE, p)]
  /\ IF toAbs(env.BASE, p) = ""
     THEN /\ res' = ProbeResponse("proxy", 400, "application/json",
                                  JsStr("Invalid path or base not set"), 0)
          /\ inflight' = inflight
     ELSE /\ inflight' = inflight (+) ProbeSuspended("proxy", 1, <<>>)
          /\ res' = NoRes
  /\ fetchStarted' = ""
  /\ UNCHANGED <<config, lastFallback, cache, failCount, nextTryAt, clock, alive,
                 history, detail>>

\* out.text || out.error || "Proxy error" for a failed call.
ProxyErrorText(u) ==
  IF u.net # "ok" THEN "Error: " \o u.net
  ELSE IF u.status # 200 THEN (IF u.body # "" THEN u.body ELSE "Upstream 503")
  ELSE "SyntaxError"

\* /api/proxy resumes after `await tryRemote(url, "proxy")`.
ProxyDone(r, u) ==
  /\ alive
  /\ r.pc = "proxy"
  /\ inflight' = inflight (-) SetToBag({r})
  /\ probe' = [NoProbe EXCEPT !.by = "proxy"]
  /\ LET out == tryRemote(u)
     IN res' = IF out.ok
               THEN ProbeResponse("proxy", 200, out.contentType, out.data, r.fetches)
               ELSE ProbeResponse("proxy", out.status, "text/html; charset=utf-8",
                                  JsStr(ProxyErrorText(u)), r.fetches)
  /\ fetchStarted' = ""
  /\ UNCHANGED <<config, lastFallback, cache, failCount, nextTryAt, clock, alive, arrived,
                 history, detail>>

\* Environments for the probes, demo mode on: both URLs under a base; and,
\* with no base, one URL unset and the other relative (set, but toAbs gives
\* null).
InitProbe ==
  /\ env \in {[BASE |-> "https://up", LOCATIONS_URL |-> "/v1/feed", STATES_URL |-> "/v1/feed"],
              [BASE |-> "", LOCATIONS_URL |-> "", STATES_URL |-> "/v1/feed"]}
  /\ remoteUrl = RemoteUrls(env)
  /\ DEMO_CONFIGURED = TRUE
  /\ budget = MaxRequests
  /\ Start

NextProbe ==
  \/ \E kind \in Kinds : ApiStart(kind)
  \/ \E r \in BagToSet(inflight), u \in CoreResponses : ApiFetchDone(r, u)
  \/ \E r \in BagToSet(inflight) : ApiDemoDone(r)
  \/ Tick
  \/ HealthStart
  \/ \E r \in BagToSet(inflight), u \in CoreResponses : HealthDone(r, u)
  \/ \E p \in UrlSamples : ProxyStart(p)
  \/ \E r \in BagToSet(inflight), u \in CoreResponses : ProxyDone(r, u)
SpecProbe == InitProbe /\ [][NextProbe]_vars

(* ------------------ one upstream call, step by step -------------------- *)
\* fetchWithTimeout and tryRemote followed through their awaits for one call
\* at a time.  call.phase: "headers" while `await fetch(...)` is pending (the
\* abort timer armed, due at call.deadline), "body" while `await r.json()` /
\* `await r.text()` is pending (the timer cleared by the `finally`), "aborted"
\* once the timer fired.  call.up is the response whose headers arrived.
TheCall == CHOOSE r \in BagToSet(inflight) : r.pc = "tryRemote"

\* A request arrives while no call is followed; if it calls upstream,
\* fetchWithTimeout arms the timer and awaits fetch().
FetchBegin(kind) ==
  /\ call.phase = "idle"
  /\ clock <= MaxTime
  /\ arrived < budget
  /\ arrived' = arrived + 1
  /\ Handle(kind)
  /\ call' = IF fetchStarted' = kind
             THEN [phase |-> "headers", kind |-> kind,
                   deadline |-> clock + UPSTREAM_TIMEOUT_MS, up |-> UpFail("none", 0)]
             ELSE call
  /\ probe' = NoProbe
  /\ UNCHANGED healthy

\* Nothing of the server runs: only the call record changes.
CallOnly ==
  /\ alive
  /\ res' = NoRes
  /\ fetchStarted' = ""
  /\ probe' = NoProbe
  /\ UNCHANGED <<config, lastFallback, cache, failCount, nextTryAt, clock, inflight,
                 alive, arrived, history, healthy>>

\* Status and headers of u arrive: fetch() resolves, the `finally` clears the
\* timer, tryRemote goes on to await the body.
HeadersArrive(u) ==
  /\ call.phase = "headers"
  /\ u.net = "ok"
  /\ call' = [call EXCEPT !.phase = "body", !.up = u]
  /\ CallOnly

\* The tryRemote call ends with u and the handler resumes.
CallEnds(u, after) ==
  /\ Resume(TheCall, u)
  /\ call' = after
  /\ probe' = NoProbe
  /\ UNCHANGED healthy

\* fetch() rejects before any response (DNS, connection refused).
TransportError ==
  /\ call.phase = "headers"
  /\ CallEnds(UpFail("refused", 0), NoCall)

\* The timer is due: ctrl.abort(new Error("timeout")) rejects the pending
\* fetch().
TimerFires ==
  /\ call.phase = "headers"
  /\ clock >= call.deadline
  /\ CallEnds(UpFail("timeout", 0), [call EXCEPT !.phase = "aborted"])

\* The body arrives in full: r.json() / r.text() resolves (or r.json() throws
\* on the text).
BodyArrives ==
  /\ call.phase = "body"
  /\ CallEnds(call.up, NoCall)

\* The connection breaks while the body is read: r.json() / r.text() rejects
\* (for a non-2xx response, `.catch(() => "")` keeps the status).
BodyError ==
  /\ call.phase = "body"
  /\ CallEnds(IF call.up.status # 200 THEN call.up ELSE UpFail("refused", 0), NoCall)

\* Mutant: the response of an aborted call is processed as a success.
LateDelivery_accepted ==
  /\ call.phase = "aborted"
  /\ call' = NoCall
  /\ alive
  /\ res' = NoRes
  /\ fetchStarted' = ""
  /\ probe' = NoProbe
  /\ failCount' = onSuccess(call.kind).failCount
  /\ nextTryAt' = onSuccess(call.kind).nextTryAt
  /\ cache' = [cache EXCEPT ![call.kind] =
                 [data |-> JsStr("a,b"), contentType |-> "text/plain; charset=utf-8",
                  at |-> 0]]
  /\ UNCHANGED <<config, lastFallback, clock, inflight, alive, arrived, history, healthy>>

\* The transport delivers the response of an aborted call: fetch() has
\* already rejected, nothing of the server runs.
LateDelivery ==
  /\ call.phase = "aborted"
  /\ call' = NoCall
  /\ CallOnly

\* Date.now() advances; a due timer runs before time moves on.
Elapse ==
  /\ alive
  /\ clock < MaxTime + UPSTREAM_TIMEOUT_MS
  /\ ~(call.phase = "headers" /\ clock >= call.deadline)
  /\ clock' = clock + 1
  /\ res' = NoRes
  /\ fetchStarted' = ""
  /\ probe' = NoProbe
  /\ UNCHANGED <<config, lastFallback, cache, failCount, nextTryAt, inflight,
                 alive, arrived, history, detail>>

NextFetch ==
  \/ \E kind \in Kinds : FetchBegin(kind)
  \/ \E u \in UpstreamResponses : HeadersArrive(u)
  \/ TransportError
  \/ TimerFires
  \/ BodyArrives
  \/ BodyError
  \/ LateDelivery
  \/ \E r \in BagToSet(inflight) : ApiDemoDone(r)
  \/ Elapse

\* Only the locations upstream configured.
InitFetch ==
  /\ env = [BASE |-> "https://up", LOCATIONS_URL |-> "/v1/feed", STATES_URL |-> ""]
  /\ remoteUrl = RemoteUrls(env)
  /\ DEMO_CONFIGURED \in BOOLEAN
  /\ budget = MaxRequests
  /\ Start

SpecFetch == InitFetch /\ [][NextFetch]_vars

(* ------------------------------ recovery ------------------------------- *)
\* Requests for /api/locations keep arriving (they are not counted), the
\* upstream fails at will until it turns healthy and answers every call
\* successfully from then on, the demo file is readable.
RecoverArrive ==
  /\ BagCardinality(inflight) < MaxPending
  /\ Handle("locations")
  /\ probe' = NoProbe
  /\ UNCHANGED <<arrived, detail>>

RecoverComplete(r, u) ==
  /\ healthy => tryRemote(u).ok
  /\ ApiFetchDone(r, u)

RecoverDemoDone(r) ==
  /\ ApiDemoDone(r)
  /\ res'.path = "synthetic"

\* The upstream turns healthy.  The model's clock stops at MaxTime, so this
\* is followed from the states whose window, if any, ends by then.
BecomeHealthy ==
  /\ ~healthy
  /\ nextTryAt["locations"] <= MaxTime
  /\ healthy' = TRUE
  /\ res' = NoRes
  /\ fetchStarted' = ""
  /\ probe' = NoProbe
  /\ UNCHANGED <<config, lastFallback, cache, failCount, nextTryAt, clock, inflight,
                 alive, arrived, history, call>>

NextRecover ==
  \/ RecoverArrive
  \/ \E r \in BagToSet(inflight), u \in CoreResponses : RecoverComplete(r, u)
  \/ \E r \in BagToSet(inflight) : RecoverDemoDone(r)
  \/ Tick
  \/ BecomeHealthy

\* Time keeps advancing, requests keep arriving, every call and every demo
\* read ends.
RecoverFairness ==
  /\ WF_vars(Tick)
  /\ WF_vars(RecoverArrive)
  /\ WF_vars(\E r \in BagToSet(inflight), u \in CoreResponses : RecoverComplete(r, u))
  /\ WF_vars(\E r \in BagToSet(inflight) : RecoverDemoDone(r))

InitRecover ==
  /\ env = [BASE |-> "https://up", LOCATIONS_URL |-> "/v1/feed", STATES_URL |-> ""]
  /\ remoteUrl = RemoteUrls(env)
  /\ DEMO_CONFIGURED \in BOOLEAN
  /\ budget = MaxRequests
  /\ Start

SpecRecover == InitRecover /\ [][NextRecover]_vars /\ RecoverFairness

\* The environments without a base that leave a resource without a URL the
\* server can call: its URL is unset or relative (the other URL is unset,
\* relative or absolute).
InitEnv ==
  /\ env \in {e \in Environments :
                e.BASE = "" /\ \E kind \in Kinds : RemoteUrls(e)[kind] = ""}
  /\ remoteUrl = RemoteUrls(env)
  /\ DEMO_CONFIGURED \in BOOLEAN
  /\ budget = MaxRequests
  /\ Start

\* The deployment in which both upstreams are configured.
InitTwo ==
  /\ env = [BASE |-> "https://up", LOCATIONS_URL |-> "/v1/feed", STATES_URL |-> "/v1/feed"]
  /\ remoteUrl = RemoteUrls(env)
  /\ DEMO_CONFIGURED \in BOOLEAN
  /\ budget = MaxRequests
  /\ Start

Spec == Init /\ [][Next]_vars
SpecEnv == InitEnv /\ [][Next]_vars

\* The resolvers against an upstream that answers with a timeout, a 503, a
\* JSON body or a text body.
NextTwo ==
  \/ \E kind \in Kinds : ApiStart(kind)
  \/ \E r \in BagToSet(inflight), u \in CoreResponses : ApiFetchDone(r, u)
  \/ \E r \in BagToSet(inflight) : ApiDemoDone(r)
  \/ Tick
SpecTwo == InitTwo /\ [][NextTwo]_vars

SpecOne == InitOne /\ [][Next]_vars

\* The demo deployments: the states upstream unset or configured, over every
\* baseline file.
InitDemo ==
  /\ env \in {e \in Environments :
                /\ e.BASE = "https://up"
                /\ e.LOCATIONS_URL = ""
                /\ e.STATES_URL \in {"", "/v1/feed"}}
  /\ remoteUrl = RemoteUrls(env)
  /\ DEMO_CONFIGURED = TRUE
  /\ budget = MaxRequests
  /\ baseline \in Baselines
  /\ Boot

\* The resolver of the states against an upstream that answers with a timeout,
\* a 503, a JSON body or a text body.
NextDemo ==
  \/ ApiStart("states")
  \/ \E r \in BagToSet(inflight), u \in CoreResponses : ApiFetchDone(r, u)
  \/ \E r \in BagToSet(inflight) : ApiDemoDone(r)
SpecDemo == InitDemo /\ [][NextDemo]_vars

(* ------------------------------- claims -------------------------------- *)
Responded == res.path \in {"live", "cached", "synthetic", "unavailable"}
Fetching(kind) == {r \in BagToSet(inflight) : r.kind = kind /\ r.pc = "tryRemote"}
Reading(kind) == {r \in BagToSet(inflight) : r.kind = kind /\ r.pc = "readDemo"}

\* C1 (as stated): once a failure has tripped the backoff of a resource, no
\* upstream call for it is started before the deadline that trip set.
C1_NoFetchBeforeTripDeadline ==
  fetchStarted # "" => ~(clock < tripUntil[fetchStarted])

\* C1 (amended): no upstream call for a resource is started while the clock
\* is before the resource's current nextTryAt.
C1_NoFetchWhileBackoff ==
  fetchStarted # "" => ~(clock < nextTryAt[fetchStarted])

\* A request arrived inside an open window and was served from the cache
\* without an upstream call.
C1_Witness ==
  /\ res.path = "cached"
  /\ res.fetches = 0
  /\ remoteUrl[res.kind] # ""
  /\ clock < nextTryAt[res.kind]

\* C2: right after a live success the resource's failCount is 0, its
\* nextTryAt is 0 and its cache holds the value and content type of that fetch.
C2_SuccessResets ==
  res.path = "live" =>
    /\ failCount[res.kind] = 0
    /\ nextTryAt[res.kind] = 0
    /\ cache[res.kind].data = res.body
    /\ cache[res.kind].contentType = res.contentType

\* A success that arrived while the window of an earlier trip was open.
C2_Witness ==
  /\ res.path = "live"
  /\ clock < tripUntil[res.kind]

\* C3: once a live fetch has stored a payload, a resolution whose live call
\* failed or was skipped answers with exactly that payload and content type,
\* never with unavailable.
C3_CachedVerbatim ==
  (res.path \in {"cached", "unavailable"} /\ cache[res.kind] # EmptyCache) =>
    /\ res.path = "cached"
    /\ res.body = cache[res.kind].data
    /\ res.contentType = cache[res.kind].contentType

\* C4: the fallback flag is true when a synthetic answer is sent, and false
\* right after a live success of that resource once no demo read of the
\* resource is pending.
C4_FlagFollowsDemo ==
  /\ res.path = "synthetic" => lastFallback[res.kind]
  /\ (res.path = "live" /\ Reading(res.kind) = {}) => ~lastFallback[res.kind]

\* C5: whenever the cache of a resource holds a (truthy) value of a live
\* success, the fallback flag of that resource is false.
C5_NoFlagWithCache ==
  \A kind \in Kinds : Truthy(cache[kind].data) => ~lastFallback[kind]

\* C6: with demo mode disabled and no cached value, a resolution whose live
\* call failed or was skipped answers 500 with the error body of its resource,
\* without X-Cache or X-Demo-Fallback, with the fallback flag false and the
\* process still up.
C6_Unavailable ==
  (~DEMO_CONFIGURED /\ res.path \notin {"none", "live"}
     /\ cache[res.kind].data = JsNull) =>
    /\ res.path = "unavailable"
    /\ res.status = 500
    /\ res.xCache = "" /\ res.xDemo = ""
    /\ res.body = JsStr(IF res.kind = "locations"
                        THEN "LOCATIONS_URL failed, and demo mode disabled"
                        ELSE "STATES_URL failed, and demo mode disabled")
    /\ ~lastFallback[res.kind]
    /\ alive
    /\ arrived < budget => ENABLED ApiStart(res.kind)

\* A 500 after a failed live call.
C6_Witness ==
  /\ res.path = "unavailable"
  /\ res.fetches = 1

\* C7: the cache of a resource changes only in the step that answers live
\* for that resource, and then to the value, content type and request time
\* of that fetch.
C7_CacheFrame ==
  [][\A kind \in Kinds :
       cache'[kind] # cache[kind] =>
         /\ res'.path = "live" /\ res'.kind = kind
         /\ cache'[kind].data = res'.body
         /\ cache'[kind].contentType = res'.contentType
         /\ \E r \in Fetching(kind) : cache'[kind].at = r.now]_vars

\* A failed attempt was answered from a cache that an earlier success filled.
C7_Witness ==
  /\ res.path = "cached"
  /\ res.fetches = 1
  /\ res.body = cache[res.kind].data
  /\ failCount[res.kind] > 0

\* C8: when the failure of an attempt that was started after a window's
\* deadline opens a new window, BACKOFF_AFTER_FAILS failed attempts started
\* after that deadline have been counted (the tripping one included).
C8_TripNeedsFreshFailures ==
  [][\A kind \in Kinds :
       (/\ tripUntil[kind] > 0 /\ tripUntil[kind] <= clock
        /\ tripUntil'[kind] > clock
        /\ \E r \in Fetching(kind) :
             r.now >= tripUntil[kind] /\ CopiesIn(r, inflight') < CopiesIn(r, inflight))
       => failedSince[kind] + 1 >= BACKOFF_AFTER_FAILS]_vars

\* C9: the headers of a response name the branch that sent it.
C9_PathHeaders ==
  /\ res.path = "live" => res.status = 200 /\ res.xCache = "" /\ res.xDemo = ""
  /\ res.path = "cached" =>
       /\ res.xCache = (IF res.kind = "locations" THEN "hit-locations" ELSE "hit-states")
       /\ res.xDemo = ""
  /\ res.path = "synthetic" => res.xDemo = res.kind /\ res.xCache = ""
  /\ res.path = "unavailable" => res.status = 500 /\ res.xCache = "" /\ res.xDemo = ""
  /\ Responded => ~(res.xCache # "" /\ res.xDemo # "")

\* A cache hit for states.
C9_Witness ==
  /\ res.path = "cached"
  /\ res.kind = "states"
  /\ res.xCache = "hit-states"

\* C10: no request makes more than one upstream call, and a request whose
\* call failed is answered (or starts its demo read) without another call.
C10_OneFetchPerRequest ==
  /\ \A r \in BagToSet(inflight) : r.fetches <= 1
  /\ res.fetches <= 1
  /\ fetchStarted # "" => res = NoRes

\* A request whose one upstream call failed was answered with demo data.
C10_Witness ==
  /\ res.path = "synthetic"
  /\ res.fetches = 1

\* The URL of the resource is unset, or it is relative and no base is set.
Unresolvable(kind) ==
  \/ ResourceUrl(env, kind) = ""
  \/ ResourceUrl(env, kind) = "/v1/feed" /\ env.BASE = ""

\* C11: a resource without a resolvable upstream URL is never fetched, its
\* consecutiveFailures and backoffUntil stay as they were, and each of its
\* requests is answered from the cache, else (with demo mode) from demo data
\* with X-Demo-Fallback, else with unavailable.
C11_NoUrlNoFetch ==
  \A kind \in Kinds : Unresolvable(kind) =>
    /\ fetchStarted # kind
    /\ Fetching(kind) = {}
    /\ \A r \in Reading(kind) : r.fetches = 0
    /\ failCount[kind] = 0
    /\ nextTryAt[kind] = 0
    /\ (res.kind = kind /\ res.path # "fault") =>
         /\ res.fetches = 0
         /\ res.path = (IF Truthy(cache[kind].data) THEN "cached"
                        ELSE IF DEMO_CONFIGURED THEN "synthetic" ELSE "unavailable")
         /\ res.path = "synthetic" => res.xDemo = kind
    /\ (~DEMO_CONFIGURED /\ ~Truthy(cache[kind].data)) => Reading(kind) = {}

\* A relative LOCATIONS_URL with no base: the request was answered with demo
\* data while the other resource, configured, has failed upstream.
C11_Witness ==
  /\ env.BASE = ""
  /\ env.LOCATIONS_URL = "/v1/feed"
  /\ res.kind = "locations"
  /\ res.path = "synthetic"
  /\ res.xDemo = "locations"
  /\ failCount["states"] > 0

\* C13: with demo mode enabled (and the demo files readable, i.e. outside the
\* fault outcome) no request is answered unavailable: every answer is live,
\* cached or synthetic, whatever failed upstream and whatever window is open.
C13_DemoNeverUnavailable ==
  DEMO_CONFIGURED =>
    /\ res.path # "unavailable"
    /\ res.status # 500
    /\ res.path \notin {"none", "fault"} => res.path \in {"live", "cached", "synthetic"}

\* Demo data served inside an open backoff window.
C13_Witness ==
  /\ DEMO_CONFIGURED
  /\ res.path = "synthetic"
  /\ res.fetches = 0
  /\ clock < nextTryAt[res.kind]

\* C15: a failed upstream call of a resolver adds exactly one to the
\* resource's consecutiveFailures; when that reaches BACKOFF_AFTER_FAILS the
\* same step sets backoffUntil to the time of the failure plus
\* BACKOFF_WINDOW_MS and the count to 0, otherwise backoffUntil is unchanged.
C15_FailureCounts ==
  [][\A kind \in Kinds : \A r \in Fetching(kind) :
       (CopiesIn(r, inflight') < CopiesIn(r, inflight) /\ res'.path # "live")
       => IF failCount[kind] + 1 >= BACKOFF_AFTER_FAILS
          THEN /\ failCount'[kind] = 0
               /\ nextTryAt'[kind] = clock + BACKOFF_WINDOW_MS
          ELSE /\ failCount'[kind] = failCount[kind] + 1
               /\ nextTryAt'[kind] = nextTryAt[kind]]_vars

\* A failure processed after the clock moved opened the window from the time
\* of the failure, not from the start of the request.
C15_Witness ==
  /\ res.path \in {"cached", "unavailable"}
  /\ res.fetches = 1
  /\ clock > 0
  /\ failCount[res.kind] = 0
  /\ nextTryAt[res.kind] = clock + BACKOFF_WINDOW_MS

\* C16: each resource's consecutiveFailures stays in 0 .. BACKOFF_AFTER_FAILS - 1.
C16_CountBelowThreshold ==
  \A kind \in Kinds :
    /\ failCount[kind] \in Nat
    /\ failCount[kind] < BACKOFF_AFTER_FAILS

\* After a window was opened the count started again from zero and is one
\* short of the threshold.
C16_Witness ==
  \E kind \in Kinds :
    /\ tripUntil[kind] > 0
    /\ failCount[kind] = BACKOFF_AFTER_FAILS - 1

\* The step is about a request for `kind`: the request arrived, was resumed or
\* was answered in it.
Touched(kind) ==
  \/ res'.kind = kind
  \/ fetchStarted' = kind
  \/ \E r \in DOMAIN inflight' :
       r.kind = kind /\ CopiesIn(r, inflight') > CopiesIn(r, inflight)

\* C17: a step of a request for one resource leaves the cache, the failure
\* count, the backoff deadline and the fallback flag of the other resource
\* unchanged, and an arriving request whose URL is set and whose own window
\* is not open calls upstream whatever the other resource's window.
C17_OtherResourceUntouched ==
  [][\A kind \in Kinds :
       /\ (\/ cache'[kind] # cache[kind]
           \/ failCount'[kind] # failCount[kind]
           \/ nextTryAt'[kind] # nextTryAt[kind]
           \/ lastFallback'[kind] # lastFallback[kind])
          => Touched(kind) /\ \A other \in Kinds \ {kind} : ~Touched(other)
       /\ (/\ arrived' = arrived + 1
           /\ Touched(kind)
           /\ remoteUrl[kind] # ""
           /\ ~(clock < nextTryAt[kind])) => fetchStarted' = kind]_vars

\* A call for states started while the window of locations is open.
C17_Witness ==
  /\ fetchStarted = "states"
  /\ clock < nextTryAt["locations"]

\* The cache entries one successful call can leave.
OneFetchEntries ==
  {[data |-> tryRemote(u).data, contentType |-> tryRemote(u).contentType, at |-> t] :
     u \in {v \in UpstreamResponses : tryRemote(v).ok}, t \in 0..clock}

\* C18: with several calls for one resource in flight, each success that is
\* processed overwrites the cache with its own value, content type and request
\* time (so the cache ends with the success processed last), every cached
\* value and content type come from one successful call, and a failure that
\* is processed leaves the cache as it was.
C18_LastSuccessWins ==
  /\ [](\A kind \in Kinds : cache[kind] = EmptyCache \/ cache[kind] \in OneFetchEntries)
  /\ [][\A kind \in Kinds : \A r \in Fetching(kind) :
          CopiesIn(r, inflight') < CopiesIn(r, inflight)
          => IF res'.path = "live"
             THEN cache'[kind] = [data |-> res'.body, contentType |-> res'.contentType,
                                  at |-> r.now]
             ELSE cache'[kind] = cache[kind]]_vars

\* A success was processed while another call for the same resource is still
\* in flight, and it stored a text payload of an earlier request over what
\* was cached.
C18_Witness ==
  /\ res.path = "live"
  /\ Fetching(res.kind) # {}
  /\ res.contentType # "application/json"
  /\ cache[res.kind].data = res.body
  /\ cache[res.kind].at < clock

\* C14: a step of /health or /api/proxy leaves every resource's cache, failure
\* count, backoff deadline and fallback flag unchanged; /health calls the
\* upstream of each resource whose URL resolves, whatever its backoff window;
\* /api/proxy answers 400 and calls nothing when its path does not resolve,
\* and calls the resolved URL otherwise.
C14_ProbesTouchNothing ==
  [][probe'.by # "" =>
       /\ UNCHANGED <<cache, failCount, nextTryAt, lastFallback>>
       /\ (probe'.by = "health" /\ arrived' = arrived + 1 /\ ~Unresolvable("locations"))
          => probe'.kind = "locations" /\ probe'.url # ""
       /\ (/\ probe'.by = "health"
           /\ ~Unresolvable("states")
           /\ \/ arrived' = arrived + 1 /\ env.LOCATIONS_URL = ""
              \/ \E r \in DOMAIN inflight :
                   r.pc = "health.locations" /\ CopiesIn(r, inflight') < CopiesIn(r, inflight))
          => probe'.kind = "states" /\ probe'.url # ""
       /\ (probe'.by = "proxy" /\ arrived' = arrived + 1)
          => IF probe'.path = "" \/ (probe'.path = "/v1/feed" /\ env.BASE = "")
             THEN /\ probe'.url = ""
                  /\ res'.path = "proxy"
                  /\ res'.status = 400
                  /\ res'.fetches = 0
                  /\ inflight' = inflight
             ELSE /\ probe'.url # ""
                  /\ res' = NoRes]_vars

\* /health called the upstream of a resource whose backoff window is open.
C14_Witness ==
  /\ probe.by = "health"
  /\ probe.kind \in Kinds
  /\ probe.url # ""
  /\ clock < nextTryAt[probe.kind]

\* C12 (as stated): no upstream call is still pending once its timeout has
\* elapsed: by its deadline the call has ended, in success or in failure.
C12_CallEndsByDeadline ==
  call.phase \in {"headers", "body"} => clock <= call.deadline

\* C19: the step in which a call times out counts one failure for the
\* resource, leaves the cache as it was and sends no live answer; and as long
\* as the aborted call's response may still be delivered, no step, its
\* delivery included, writes the cache, changes the counters or answers live.
C19_TimeoutIsOneFailure ==
  [][/\ (call.phase = "headers" /\ call'.phase = "aborted") =>
          /\ cache' = cache
          /\ res'.path # "live"
          /\ Fetching(call.kind)' = {}
          /\ IF failCount[call.kind] + 1 >= BACKOFF_AFTER_FAILS
             THEN /\ failCount'[call.kind] = 0
                  /\ nextTryAt'[call.kind] = clock + BACKOFF_WINDOW_MS
             ELSE /\ failCount'[call.kind] = failCount[call.kind] + 1
                  /\ nextTryAt'[call.kind] = nextTryAt[call.kind]
     /\ call.phase = "aborted" =>
          /\ UNCHANGED <<cache, failCount, nextTryAt>>
          /\ res'.path # "live"]_vars

\* A call timed out after an earlier success: the request was answered from
\* the cache, the failure is counted, the response may still arrive.
C19_Witness ==
  /\ call.phase = "aborted"
  /\ res.path = "cached"
  /\ res.fetches = 1
  /\ failCount[call.kind] = 1
  /\ clock >= call.deadline

\* C20: once the upstream answers every call successfully, a request for the
\* resource is eventually answered live, and at that answer the failure count
\* is 0, the deadline cleared and the cache holds the value just sent; and an
\* arriving request whose deadline has passed (now >= backoffUntil) always
\* calls upstream.
C20_Recovery ==
  /\ healthy ~> (/\ res.path = "live"
                 /\ res.kind = "locations"
                 /\ failCount["locations"] = 0
                 /\ nextTryAt["locations"] = 0
                 /\ cache["locations"].data = res.body
                 /\ cache["locations"].contentType = res.contentType)
  /\ [][(/\ BagCardinality(inflight') > BagCardinality(inflight)
         /\ clock >= nextTryAt["locations"])
        => fetchStarted' = "locations"]_vars

\* A live answer from the healthy upstream after a backoff window had been
\* opened and has run out.
C20_Witness ==
  /\ healthy
  /\ res.path = "live"
  /\ tripUntil["locations"] > 0
  /\ clock >= tripUntil["locations"]
  /\ failCount["locations"] = 0
  /\ nextTryAt["locations"] = 0

\* The latest step sent a synthetic states answer.
SyntheticStates ==
  res.path = "synthetic" /\ res.kind = "states" /\ res.status = 200
CandidatePool == {candidates[j] : j \in 1..Len(candidates)}
\* C21: a synthetic states answer lists the entries of the baseline file, one for
\* one and in file order; each entry differs from its baseline entry at most in
\* `state`, which is the baseline state or a value of the candidate pool; and no
\* step changes the baseline, so every answer starts from the same entries.
C21_SyntheticFromBaseline ==
  /\ [](SyntheticStates =>
          /\ res.body.type = "array"
          /\ Len(res.body.items) = Len(baseline)
          /\ \A i \in 1..Len(baseline) :
               /\ res.body.items[i] =
                    [baseline[i] EXCEPT !.state = res.body.items[i].state]
               /\ res.body.items[i].id = baseline[i].id
               /\ res.body.items[i].state \in {baseline[i].state} \cup CandidatePool)
  /\ [][baseline' = baseline]_vars
\* The second answer of a deployment re-rolls the second of two entries.
C21_Witness ==
  /\ SyntheticStates
  /\ arrived = 2
  /\ Len(baseline) = 2
  /\ baseline[2].state = "3"
  /\ res.body.items[1] = baseline[1]
  /\ res.body.items[2] = [id |-> "TRE102", state |-> "23"]

\* A request arrives and its handler starts no upstream call.
NoAttemptArrival == arrived' = arrived + 1 /\ fetchStarted' = ""
\* The demo read of a request that started no upstream call completes.
NoAttemptDemoDone ==
  /\ arrived' = arrived
  /\ \E r \in BagToSet(inflight) :
       /\ r.pc = "readDemo"
       /\ r.fetches = 0
       /\ inflight' = inflight (-) SetToBag({r})
\* C22: the steps of a resolution that calls no upstream (URL unset, or now
\* before the retry deadline) leave the failure counts and the retry deadlines
\* as they are, whichever answer (cached, synthetic, unavailable) is sent.
C22_NoAttemptNoCount ==
  [][(NoAttemptArrival \/ NoAttemptDemoDone) =>
       /\ failCount' = failCount
       /\ nextTryAt' = nextTryAt]_vars
\* Inside an open window a request for the configured resource was answered
\* from the cache without a call.
C22_Witness ==
  /\ res.path = "cached"
  /\ res.kind = "locations"
  /\ res.fetches = 0
  /\ remoteUrl["locations"] # ""
  /\ clock < nextTryAt["locations"]

\* C23: while now < nextTryAt of a resource its failure count is 0, and its
\* deadline changes only by being cleared (a success) or once the window has
\* expired (a new trip), also when calls started before the trip end after it.
C23_WindowIsQuiet ==
  /\ [](\A kind \in Kinds : clock < nextTryAt[kind] => failCount[kind] = 0)
  /\ [][\A kind \in Kinds :
          nextTryAt'[kind] # nextTryAt[kind] =>
            nextTryAt'[kind] = 0 \/ clock >= nextTryAt[kind]]_vars

====
